---------------------------- MODULE Spec2Model ----------------------------
(***************************************************************************)
(* The daily-suggestion subsystem of mindio-backend (src/suggestions.py)   *)
(* as a state machine over the suggestion tables of src/models.py.         *)
(*                                                                         *)
(* A text is a sequence of one-character strings.  A Suggestion's id is    *)
(* its position in the sequence suggestions (the primary key grows with    *)
(* every insert, and no operation deletes a Suggestion).                   *)
(*                                                                         *)
(* With it: points, badges and characters (src/gamification.py,            *)
(* src/rewards.py, src/user_character.py, src/activity.py) and accounts,   *)
(* tokens and onboarding (src/auth.py, src/personality.py).                *)
(***************************************************************************)
EXTENDS Integers, Sequences, FiniteSets, TLC

\* ------------------------------------------------------------------ bounds
MaxSuggestions == 2      \* rows the suggestions table may hold in a run
MaxComments    == 1      \* rows the suggestion_comments table may hold
FirstDay       == 739925 \* date.today().toordinal() when the run starts
MaxDays        == 1      \* midnights that pass during a run
PadSlack       == 1      \* long texts run from MaxTextLen-PadSlack to MaxTextLen+PadSlack
MaxProcs       == 2      \* workers serving requests at the same time
MaxCalls       == 1      \* calls of the AI client, and of the sanitizer alone, in a run
MaxPoints      == 200    \* points a user collects at most
MaxChats       == 2      \* rows the chat_activities table may hold

\* ------------------------------------------------------- program constants
MaxTextLen == 500        \* _validate_text: len(t) > 500
FeedLimit  == 200        \* feed_suggestions: .limit(200)

Users == {1, 2}          \* ids of the authenticated users (get_current_user)
None  == 0               \* Python None / SQL NULL / "no row"

\* --------------------------------------------------------------- text
\* A character is a string naming it: a letter or a sign stands for itself,
\* and the backtick is written BT.
BT == "BT"
DQ == "\""
WS == {" ", "\t", "\n", "\r"}          \* what str.strip() and the regex \s remove
Fence == <<BT, BT, BT>>                \* the three backticks of a code fence

Min(S) == CHOOSE x \in S : \A y \in S : x <= y

DropFirst(s, n) == SubSeq(s, n + 1, Len(s))
DropLast(s, n)  == SubSeq(s, 1, Len(s) - n)

StartsWith(s, p) == Len(s) >= Len(p) /\ SubSeq(s, 1, Len(p)) = p
EndsWith(s, p)   == Len(s) >= Len(p) /\ SubSeq(s, Len(s) - Len(p) + 1, Len(s)) = p

\* str.lstrip() / the regex \s* at the start of a string
LStrip(s) ==
    IF s = <<>> \/ s[1] \notin WS THEN s
    ELSE DropFirst(s, Cardinality({i \in 1..Len(s) : \A j \in 1..i : s[j] \in WS}))

\* str.rstrip() / the regex \s* at the end of a string
RStrip(s) ==
    IF s = <<>> \/ s[Len(s)] \notin WS THEN s
    ELSE DropLast(s, Cardinality({i \in 1..Len(s) : \A j \in i..Len(s) : s[j] \in WS}))

Strip(s) == LStrip(RStrip(s))

\* re.IGNORECASE over the letters of "json"
LowerChar(c) ==
    CASE c = "J" -> "j" [] c = "S" -> "s" [] c = "O" -> "o" [] c = "N" -> "n"
      [] OTHER -> c

Lower(s) == [i \in 1..Len(s) |-> LowerChar(s[i])]

\* (?:json)? at the start of a
SkipJsonWord(a) ==
    IF Len(a) >= 4 /\ Lower(SubSeq(a, 1, 4)) = <<"j", "s", "o", "n">> THEN DropFirst(a, 4) ELSE a

\* the regex prefix  ^\s* FENCE (?:json)? \s*  : what is left after it, when it matches
HasOpenFence(s) == StartsWith(LStrip(s), Fence)

AfterOpenFence(s) == LStrip(SkipJsonWord(DropFirst(LStrip(s), 3)))

\* the regex suffix  \s* FENCE \s* $  : what is left before it, when it matches
HasCloseFence(s) == EndsWith(RStrip(s), Fence)

BeforeCloseFence(s) == RStrip(DropLast(RStrip(s), 3))

\* ------------------------------------------------------------ json.loads
\* json.loads over texts made of strings, objects and arrays (the alphabet of
\* the model spells no number and no literal).  A value is parsed from the
\* front of s; the result carries what follows it.
Fail == [ok |-> FALSE]

Parsed(val, rest) == [ok |-> TRUE, val |-> val, rest |-> rest]

\* a JSON string whose closing quote is at k: a raw control character inside
\* is an error (strict mode)
StrUpTo(s, k) ==
    IF \E i \in 2..(k - 1) : s[i] \in {"\t", "\n", "\r"} THEN Fail
    ELSE Parsed([t |-> "str", s |-> SubSeq(s, 2, k - 1)], DropFirst(s, k))

ParseStr(s) ==
    IF s = <<>> \/ s[1] # DQ \/ ~(\E i \in 2..Len(s) : s[i] = DQ) THEN Fail
    ELSE StrUpTo(s, Min({i \in 2..Len(s) : s[i] = DQ}))

RECURSIVE ParseValue(_), ParseMembers(_, _), ParseItems(_, _)

\* after "key" : value in an object: } ends it, a comma continues it
AfterMember(r, all) ==
    IF r = <<>> THEN Fail
    ELSE IF r[1] = "}" THEN Parsed([t |-> "obj", pairs |-> all], DropFirst(r, 1))
    ELSE IF r[1] = "," THEN ParseMembers(LStrip(DropFirst(r, 1)), all)
    ELSE Fail

MemberValue(k, v, acc) ==
    IF ~v.ok THEN Fail
    ELSE AfterMember(LStrip(v.rest), Append(acc, [k |-> k.val.s, val |-> v.val]))

AfterKey(k, r, acc) ==
    IF r = <<>> \/ r[1] # ":" THEN Fail
    ELSE MemberValue(k, ParseValue(LStrip(DropFirst(r, 1))), acc)

MemberKey(k, acc) == IF ~k.ok THEN Fail ELSE AfterKey(k, LStrip(k.rest), acc)

\* the members of an object after its brace: "key" : value (, "key" : value)* }
ParseMembers(s, acc) == MemberKey(ParseStr(s), acc)

\* after a value in an array: ] ends it, a comma continues it
AfterItem(r, all) ==
    IF r = <<>> THEN Fail
    ELSE IF r[1] = "]" THEN Parsed([t |-> "arr", items |-> all], DropFirst(r, 1))
    ELSE IF r[1] = "," THEN ParseItems(LStrip(DropFirst(r, 1)), all)
    ELSE Fail

ItemValue(v, acc) == IF ~v.ok THEN Fail ELSE AfterItem(LStrip(v.rest), Append(acc, v.val))

\* the items of an array after its bracket: value (, value)* ]
ParseItems(s, acc) == ItemValue(ParseValue(s), acc)

ObjectBody(r) ==
    IF r # <<>> /\ r[1] = "}" THEN Parsed([t |-> "obj", pairs |-> <<>>], DropFirst(r, 1))
    ELSE ParseMembers(r, <<>>)

ArrayBody(r) ==
    IF r # <<>> /\ r[1] = "]" THEN Parsed([t |-> "arr", items |-> <<>>], DropFirst(r, 1))
    ELSE ParseItems(r, <<>>)

ParseValue(s) ==
    IF s = <<>> THEN Fail
    ELSE CASE s[1] = DQ  -> ParseStr(s)
           [] s[1] = "{" -> ObjectBody(LStrip(DropFirst(s, 1)))
           [] s[1] = "[" -> ArrayBody(LStrip(DropFirst(s, 1)))
           [] OTHER -> Fail

\* one value, then nothing but whitespace
WholeText(v) == IF v.ok /\ LStrip(v.rest) = <<>> THEN v ELSE Fail

JsonLoads(s) == WholeText(ParseValue(LStrip(s)))

\* dict.get(k): the value of the last member named k, or None
DictGet(obj, key) ==
    IF \E i \in 1..Len(obj.pairs) : obj.pairs[i].k = key
    THEN obj.pairs[CHOOSE i \in 1..Len(obj.pairs) :
                      /\ obj.pairs[i].k = key
                      /\ \A j \in (i + 1)..Len(obj.pairs) : obj.pairs[j].k # key].val
    ELSE [t |-> "none"]

\* for k in ("text", "reply", "message", "output")
TextKeys == << <<"t", "e", "x", "t">>, <<"r", "e", "p", "l", "y">>,
               <<"m", "e", "s", "s", "a", "g", "e">>, <<"o", "u", "t", "p", "u", "t">> >>

\* isinstance(v, str) and v.strip()
IsText(v) == v.t = "str" /\ Strip(v.s) # <<>>

\* the first key of TextKeys that holds a string with something in it
DictText(obj) ==
    IF \E i \in 1..Len(TextKeys) : IsText(DictGet(obj, TextKeys[i]))
    THEN [found |-> TRUE,
          text  |-> Strip(DictGet(obj, TextKeys[Min({i \in 1..Len(TextKeys) :
                                                        IsText(DictGet(obj, TextKeys[i]))})]).s)]
    ELSE [found |-> FALSE]

\* what the try block of _extract_text_from_possible_json returns, if it returns
LoadedText(v) ==
    IF ~v.ok THEN [found |-> FALSE]
    ELSE IF v.val.t = "obj" THEN DictText(v.val)
    ELSE IF v.val.t = "arr" /\ v.val.items # <<>> /\ v.val.items[1].t = "obj"
    THEN DictText(v.val.items[1])
    ELSE [found |-> FALSE]

JsonText(s) == LoadedText(JsonLoads(s))

\* the match of _JSON_FENCE_RE on a stripped text: a fence, an optional
\* "json", the lazy group, the closing fence at the end
FenceMatches(s) == HasOpenFence(s) /\ EndsWith(AfterOpenFence(s), Fence)

FenceGroup(s) == RStrip(DropLast(AfterOpenFence(s), 3))

Unfenced(s) == IF s # <<>> /\ FenceMatches(s) THEN Strip(FenceGroup(s)) ELSE s

JsonShaped(s) ==
    \/ (StartsWith(s, <<"{">>) /\ EndsWith(s, <<"}">>))
    \/ (StartsWith(s, <<"[">>) /\ EndsWith(s, <<"]">>))

TextOrSelf(s, j) == IF j.found THEN j.text ELSE s

Extracted(s) == IF JsonShaped(s) THEN TextOrSelf(s, JsonText(s)) ELSE s

_extract_text_from_possible_json(raw) == Extracted(Unfenced(Strip(raw)))

\* the characters of a marked text that are kept, in order
Keeps(m) == m.keep

Chars(q) == [i \in 1..Len(q) |-> q[i].c]

Kept(marked) == Chars(SelectSeq(marked, Keeps))

\* t.replace("\r\n", "\n").replace("\r", "\n"): a carriage return becomes a
\* newline, and the newline after a carriage return goes
NormalizeNewlines(t) ==
    IF \A i \in 1..Len(t) : t[i] # "\r" THEN t
    ELSE Kept([i \in 1..Len(t) |->
            [c    |-> IF t[i] = "\r" THEN "\n" ELSE t[i],
             keep |-> ~(t[i] = "\n" /\ i > 1 /\ t[i - 1] = "\r")]])

\* re.sub(r"[ \t]+", " ", t): every run of blanks and tabs becomes one blank
CollapseBlanks(t) ==
    IF \A i \in 1..Len(t) : t[i] # "\t" /\ ~(t[i] = " " /\ i > 1 /\ t[i - 1] = " ") THEN t
    ELSE Kept([i \in 1..Len(t) |->
            [c    |-> IF t[i] = "\t" THEN " " ELSE t[i],
             keep |-> ~(t[i] \in {" ", "\t"} /\ i > 1 /\ t[i - 1] \in {" ", "\t"})]])

\* the two re.sub calls that drop a leading and a trailing fence
DropOpenFence(t)  == IF HasOpenFence(t) THEN AfterOpenFence(t) ELSE t
DropCloseFence(t) == Strip(IF HasCloseFence(t) THEN BeforeCloseFence(t) ELSE t)

\* one pair of matching quotes around the text
Unquote(t) ==
    IF Len(t) >= 2 /\ (\/ (t[1] = DQ /\ t[Len(t)] = DQ)
                       \/ (t[1] = "'" /\ t[Len(t)] = "'"))
    THEN Strip(SubSeq(t, 2, Len(t) - 1))
    ELSE t

_sanitize_text(text) ==
    Strip(CollapseBlanks(Unquote(DropCloseFence(DropOpenFence(
        Strip(NormalizeNewlines(_extract_text_from_possible_json(text))))))))

\* mutant of Validated: the limit taken as exclusive
ValidatedOffByOne(t) ==
    IF t = <<>> THEN [status |-> 400, text |-> <<>>]
    ELSE IF Len(t) >= MaxTextLen THEN [status |-> 400, text |-> <<>>]
    ELSE [status |-> 200, text |-> t]

\* the checks of _validate_text on the sanitized text
Validated(t) ==
    IF t = <<>> THEN [status |-> 400, text |-> <<>>]
    ELSE IF Len(t) > MaxTextLen THEN [status |-> 400, text |-> <<>>]
    ELSE [status |-> 200, text |-> t]

\* mutant of _validate_text: the text checked and kept as it was sent
ValidateUnsanitized(text) == Validated(text)

\* _validate_text: the sanitized text, or the 400 it raises
_validate_text(text) == Validated(_sanitize_text(text))

\* ------------------------------------------------------------------ state
VARIABLES
    suggestions,   \* table suggestions: row i has id i
    reactions,     \* table suggestion_reactions: rows [suggestion_id, user_id, reaction]
    saves,         \* table suggestion_saves: rows [suggestion_id, user_id]
    comments,      \* table suggestion_comments, oldest first
    daily,         \* table global_daily_suggestions: rows [day, suggestion_id]
    today,         \* date.today().toordinal()
    env,           \* os.environ: AUTO_APPROVE_SUGGESTIONS, DAILY_INGEST_KEY
    req,           \* the request handled last (hook: how the AI webhook answers during it)
    resp,          \* its response (found: the reaction row React found, not sent to the client)
    dailySeen,     \* history: ids Daily has returned today since the last ingest-daily call
    ingestLog,     \* history: texts of today's ingest-daily calls that reported ok, in order
    lastReact,     \* history: per (suggestion, user), the reaction of the last React that reported ok
    saveOdd,       \* history: the (suggestion, user) pairs with an odd number of Save calls that reported ok
    call,          \* the last call of generate_response: the webhook's answers and what came back
    san,           \* the last text sanitized, what _sanitize_text made of it, and of that
    flight,        \* requests running concurrently: per worker, what it read and how it ended
    commitLog,     \* history: the workers in the order their writes were committed
    gamification,  \* table gamification: per user with a row, [points, badge_level]
    user_characters, \* table user_characters: rows [user_id, character_id, is_active]
    reward_claims, \* table reward_claims, oldest first: rows [user_id, reward_id]
    chat_activity, \* table chat_activities, oldest first: rows [user_id]
    users,         \* table users: per user, [onboarding_completed, password]
    personality_responses, \* table personality_responses, oldest first
    user_profiles, \* table user_profiles: per user with a row, the answers kept
    issued         \* the tokens create_access_token has signed

vars == <<suggestions, reactions, saves, comments, daily, today, env, req, resp,
          dailySeen, ingestLog, lastReact, saveOdd, call, san, flight, commitLog,
          gamification, user_characters, reward_claims, chat_activity,
          users, personality_responses, user_profiles, issued>>

db      == <<suggestions, reactions, saves, comments, daily>>
history == <<dailySeen, ingestLog, lastReact, saveOdd>>
shop    == <<gamification, user_characters, reward_claims, chat_activity>>
account == <<users, personality_responses, user_profiles, issued>>
extra   == <<shop, account>>
aside   == <<call, san, flight, commitLog, extra>>
tips    == <<db, today, env, history, call, san>>

Reactions == {"like", "dislike"}      \* ReactionUpsert.reaction: Literal["like", "dislike"]

Ids == 1..Len(suggestions)

\* a JWT as jwt.decode reads it: valid says that the signature is the server's
\* and exp is ahead; a claim the token does not have is None, for sub the
\* empty text (get_current_user and verify_password_reset_token test "not email")
NoToken == [valid |-> FALSE, sub |-> <<>>, user_id |-> None, type |-> ""]

NoReq  == [op |-> "none", user |-> None, text |-> <<>>, suggestion_id |-> None,
           reaction |-> "", key |-> "", hook |-> <<>>,
           character_id |-> None, reward_id |-> None, points |-> 0, token |-> NoToken,
           password |-> ""]
NoResp == [status |-> 0, id |-> None, saved |-> FALSE, items |-> <<>>, found |-> "",
           points |-> 0, owned |-> {}, active |-> None, user |-> None, token |-> NoToken]
NoCall == [made |-> 0, hook |-> <<>>, raised |-> "", reply |-> <<>>, attempts |-> 0]
NoSan  == [done |-> 0, text |-> <<>>, once |-> <<>>, twice |-> <<>>]

\* the workers that serve requests at the same time (the threadpool of the
\* synchronous handlers), each with a database session of its own
Procs == 1..MaxProcs

\* a worker with no request: seen is what the handler's query found, start the
\* state of its pair when the first of the running requests began, conflict
\* that its write hit a unique constraint
Idle == [op |-> "idle", phase |-> "idle", user |-> None, sid |-> None, value |-> "",
         seen |-> "", start |-> "", status |-> 0, saved |-> FALSE, id |-> None,
         conflict |-> FALSE, points |-> 0]

\* ------------------------------------------------------------ read helpers
\* _likes_dislikes: the rows of one suggestion with one reaction value
CountReactions(sid, value) ==
    Cardinality({r \in reactions : r.suggestion_id = sid /\ r.reaction = value})

_likes_dislikes(sid) == <<CountReactions(sid, "like"), CountReactions(sid, "dislike")>>

_is_saved(sid, uid) == \E r \in saves : r.suggestion_id = sid /\ r.user_id = uid

\* ids in ascending order, as a sequence (ORDER BY id ASC)
RECURSIVE Ascending(_)
Ascending(S) ==
    IF S = {} THEN <<>>
    ELSE LET m == Min(S) IN <<m>> \o Ascending(S \ {m})

Reverse(q) == [i \in 1..Len(q) |-> q[Len(q) + 1 - i]]

Take(q, n) == SubSeq(q, 1, IF Len(q) < n THEN Len(q) ELSE n)

\* mutant of FallbackPool: the filter on is_approved left out
FallbackPoolUnfiltered(sugs) ==
    LET base      == 1..Len(sugs)
        preferred == {i \in base : sugs[i].source \in {"system", "ai"}}
    IN  Ascending(IF preferred # {} THEN preferred ELSE base)

\* the pool of _get_fallback_global_tip: the approved system/ai rows if there
\* are any, else every approved row, by ascending id
FallbackPool(sugs) ==
    LET base      == {i \in 1..Len(sugs) : sugs[i].is_approved}
        preferred == {i \in base : sugs[i].source \in {"system", "ai"}}
    IN  Ascending(IF preferred # {} THEN preferred ELSE base)

\* mutant of _get_fallback_global_tip: the index taken from the day before
FallbackOffByOne(sugs, day) ==
    LET pool == FallbackPool(sugs)
    IN  IF pool = <<>> THEN [status |-> 404, id |-> None]
        ELSE [status |-> 200, id |-> pool[((day - 1) % Len(pool)) + 1]]

_get_fallback_global_tip(sugs, day) ==
    LET pool == FallbackPool(sugs)
    IN  IF pool = <<>> THEN [status |-> 404, id |-> None]
        ELSE [status |-> 200, id |-> pool[(day % Len(pool)) + 1]]

\* mutant of FeedIds: the source filter left out
FeedIdsAnySource(sugs) ==
    Take(Reverse(Ascending({i \in 1..Len(sugs) : sugs[i].is_approved})), FeedLimit)

\* the rows feed_suggestions selects: approved, source user, newest first
\* (created_at grows with the id), at most FeedLimit
FeedIds(sugs) ==
    Take(Reverse(Ascending({i \in 1..Len(sugs) :
                               sugs[i].is_approved /\ sugs[i].source = "user"})),
         FeedLimit)

\* the DTO of SuggestionFeedDTO / SuggestionDailyDTO for one row and one reader
EngagementDTO(sid, uid) ==
    [id |-> sid, user_id |-> suggestions[sid].user_id, text |-> suggestions[sid].text,
     likes |-> _likes_dislikes(sid)[1], dislikes |-> _likes_dislikes(sid)[2],
     is_saved |-> _is_saved(sid, uid)]

\* the subquery agg of feed_suggestions: for every suggestion that has
\* reaction rows, the sums of its two case expressions
FeedAgg ==
    [sid \in {r.suggestion_id : r \in reactions} |->
        [likes    |-> Cardinality({r \in reactions : r.suggestion_id = sid /\ r.reaction = "like"}),
         dislikes |-> Cardinality({r \in reactions : r.suggestion_id = sid /\ r.reaction = "dislike"})]]

\* the subquery saved of feed_suggestions: what the reader has saved
FeedSaved(uid) == {r.suggestion_id : r \in {x \in saves : x.user_id = uid}}

\* mutant of FeedDTO: the saved subquery without its filter on the reader
FeedDTOAnySaver(sid, uid) ==
    [id |-> sid, user_id |-> suggestions[sid].user_id, text |-> suggestions[sid].text,
     likes    |-> IF sid \in DOMAIN FeedAgg THEN FeedAgg[sid].likes ELSE 0,
     dislikes |-> IF sid \in DOMAIN FeedAgg THEN FeedAgg[sid].dislikes ELSE 0,
     is_saved |-> sid \in {r.suggestion_id : r \in saves}]

\* one row of the feed: the suggestion outer-joined with agg and saved, the
\* missing sums coalesced to 0
FeedDTO(sid, uid) ==
    [id |-> sid, user_id |-> suggestions[sid].user_id, text |-> suggestions[sid].text,
     likes    |-> IF sid \in DOMAIN FeedAgg THEN FeedAgg[sid].likes ELSE 0,
     dislikes |-> IF sid \in DOMAIN FeedAgg THEN FeedAgg[sid].dislikes ELSE 0,
     is_saved |-> sid \in FeedSaved(uid)]

\* ------------------------------------------------------------ the AI client
max_attempts == 3

\* for k in ["reply", "textResponse", "text", "output", "message"]
ReplyKeys == << <<"r", "e", "p", "l", "y">>,
                <<"t", "e", "x", "t", "R", "e", "s", "p", "o", "n", "s", "e">>,
                <<"t", "e", "x", "t">>,
                <<"o", "u", "t", "p", "u", "t">>,
                <<"m", "e", "s", "s", "a", "g", "e">> >>

NoReply == [found |-> FALSE, text |-> <<>>]

\* the first key of ReplyKeys that holds a string with something in it
DictReply(obj) ==
    IF \E i \in 1..Len(ReplyKeys) : IsText(DictGet(obj, ReplyKeys[i]))
    THEN [found |-> TRUE,
          text  |-> Strip(DictGet(obj, ReplyKeys[Min({i \in 1..Len(ReplyKeys) :
                                                         IsText(DictGet(obj, ReplyKeys[i]))})]).s)]
    ELSE NoReply

\* the same keys under "data", when that is an object
NestedReply(nested) == IF nested.t = "obj" THEN DictReply(nested) ELSE NoReply

\* _extract_reply on parsed JSON: a string, an object (its keys, then those
\* under "data"), or the first item of a list
RECURSIVE _extract_reply(_)
_extract_reply(data) ==
    IF data.t = "str"
    THEN (IF Strip(data.s) # <<>> THEN [found |-> TRUE, text |-> Strip(data.s)] ELSE NoReply)
    ELSE IF data.t = "obj"
    THEN (IF DictReply(data).found THEN DictReply(data)
          ELSE NestedReply(DictGet(data, <<"d", "a", "t", "a">>)))
    ELSE IF data.t = "arr" /\ data.items # <<>> THEN _extract_reply(data.items[1])
    ELSE NoReply

\* what a body that is not empty gives: the raw text when it is not JSON,
\* else the reply found in it, if any
BodyReply(raw, j) ==
    IF ~j.ok THEN [found |-> TRUE, text |-> raw] ELSE _extract_reply(j.val)

\* one attempt of generate_response against the answer o of the webhook:
\* status 0 stands for httpx.HTTPError or a timeout (no response at all).
\* found says that the attempt returns, text what it returns; otherwise the
\* attempt raises AIClientError, httpx.HTTPError or asyncio.TimeoutError.
AttemptReply(o) ==
    IF o.status = 0 THEN NoReply
    ELSE IF o.status >= 400 THEN NoReply
    ELSE IF Len(o.body) = 0 THEN NoReply
    ELSE IF Strip(o.body) = <<>> THEN NoReply
    ELSE BodyReply(Strip(o.body), JsonLoads(o.body))

\* the loop of generate_response over a webhook that answers attempt n as
\* hook[n]: a failed attempt is followed by the next one while attempts are left
RECURSIVE Attempt(_, _)
Attempt(hook, attempt) ==
    IF AttemptReply(hook[attempt]).found
    THEN [raised |-> "", reply |-> AttemptReply(hook[attempt]).text, attempts |-> attempt]
    ELSE IF attempt < max_attempts
    THEN Attempt(hook, attempt + 1)
    ELSE [raised |-> "AIClientError", reply |-> <<>>, attempts |-> attempt]

\* mutant of generate_response: exhaustion answered with an empty reply
\* instead of an error
GenerateResponseFailsOpen(hook) ==
    IF ~env.ai_webhook_url
    THEN [raised |-> "AIClientError", reply |-> <<>>, attempts |-> 0]
    ELSE [Attempt(hook, 1) EXCEPT !.raised = ""]

generate_response(hook) ==
    IF ~env.ai_webhook_url
    THEN [raised |-> "AIClientError", reply |-> <<>>, attempts |-> 0]
    ELSE Attempt(hook, 1)

\* the parameters generate_response declares, and the keywords
\* _generate_ai_suggestion_text passes to it
GenerateResponseParams == {"message", "history", "user_context", "user_data"}
GenerateCallKeywords   == {"message", "history", "user_id", "user_data", "user_context"}

\* _generate_ai_suggestion_text: the text, or what it raises.  A keyword the
\* callee does not declare is a TypeError at the call; AIClientError becomes
\* HTTPException 502; _validate_text may raise HTTPException 400.
_generate_ai_suggestion_text(hook) ==
    IF ~(GenerateCallKeywords \subseteq GenerateResponseParams)
    THEN [raised |-> "TypeError", status |-> 500, text |-> <<>>]
    ELSE LET r == generate_response(hook)
         IN  IF r.raised # ""
             THEN [raised |-> "HTTPException", status |-> 502, text |-> <<>>]
             ELSE LET v == _validate_text(r.reply)
                  IN  IF v.status # 200
                      THEN [raised |-> "HTTPException", status |-> 400, text |-> <<>>]
                      ELSE [raised |-> "", status |-> 200, text |-> v.text]

\* ---------------------------------------------------------------- handlers
\* Each handler is an operator from the tables it reads and its inputs to its
\* response and the tables it leaves; fault says that the commit raises
\* SQLAlchemyError.

\* POST /suggestions
create_suggestion(sugs, uid, text, fault) ==
    LET v == _validate_text(text)
    IN  IF v.status # 200 THEN [status |-> 400, id |-> None, sugs |-> sugs]
        ELSE IF fault THEN [status |-> 500, id |-> None, sugs |-> sugs]
        ELSE [status |-> 201, id |-> Len(sugs) + 1,
              sugs |-> Append(sugs, [user_id |-> uid, text |-> v.text,
                                     is_approved |-> env.auto_approve, source |-> "user"])]

\* the write-or-update of today's global_daily_suggestions row
UpsertDaily(rows, day, sid) ==
    IF \E r \in rows : r.day = day
    THEN {IF r.day = day THEN [r EXCEPT !.suggestion_id = sid] ELSE r : r \in rows}
    ELSE rows \cup {[day |-> day, suggestion_id |-> sid]}

\* mutant of ingest_daily_suggestion: the text written over the newest tip
IngestRewritesTip(sugs, rows, day, key, text, fault1, fault2) ==
    LET v == _validate_text(text)
    IN  IF env.daily_ingest_key = "" THEN [status |-> 500, id |-> None, sugs |-> sugs, rows |-> rows]
        ELSE IF key # env.daily_ingest_key
        THEN [status |-> 401, id |-> None, sugs |-> sugs, rows |-> rows]
        ELSE IF v.status # 200 THEN [status |-> 400, id |-> None, sugs |-> sugs, rows |-> rows]
        ELSE IF fault1 THEN [status |-> 500, id |-> None, sugs |-> sugs, rows |-> rows]
        ELSE IF sugs = <<>>
        THEN [status |-> 200, id |-> 1,
              sugs |-> <<[user_id |-> None, text |-> v.text,
                          is_approved |-> TRUE, source |-> "system"]>>,
              rows |-> IF fault2 THEN rows ELSE UpsertDaily(rows, day, 1)]
        ELSE [status |-> 200, id |-> Len(sugs),
              sugs |-> [sugs EXCEPT ![Len(sugs)] =
                           [user_id |-> None, text |-> v.text,
                            is_approved |-> TRUE, source |-> "system"]],
              rows |-> IF fault2 THEN rows ELSE UpsertDaily(rows, day, Len(sugs))]

\* mutant of ingest_daily_suggestion: the key compared after the writes
IngestChecksKeyLate(sugs, rows, day, key, text, fault1, fault2) ==
    LET v == _validate_text(text)
    IN  IF env.daily_ingest_key = "" THEN [status |-> 500, id |-> None, sugs |-> sugs, rows |-> rows]
        ELSE IF v.status # 200 THEN [status |-> 400, id |-> None, sugs |-> sugs, rows |-> rows]
        ELSE IF fault1 THEN [status |-> 500, id |-> None, sugs |-> sugs, rows |-> rows]
        ELSE [status |-> IF key # env.daily_ingest_key THEN 401 ELSE 200,
              id |-> Len(sugs) + 1,
              sugs |-> Append(sugs, [user_id |-> None, text |-> v.text,
                                     is_approved |-> TRUE, source |-> "system"]),
              rows |-> IF fault2 THEN rows ELSE UpsertDaily(rows, day, Len(sugs) + 1)]

\* POST /suggestions/ingest-daily; fault1 fails the commit of the suggestion,
\* fault2 the commit of the day's row
ingest_daily_suggestion(sugs, rows, day, key, text, fault1, fault2) ==
    LET v == _validate_text(text)
    IN  IF env.daily_ingest_key = "" THEN [status |-> 500, id |-> None, sugs |-> sugs, rows |-> rows]
        ELSE IF key # env.daily_ingest_key
        THEN [status |-> 401, id |-> None, sugs |-> sugs, rows |-> rows]
        ELSE IF v.status # 200 THEN [status |-> 400, id |-> None, sugs |-> sugs, rows |-> rows]
        ELSE IF fault1 THEN [status |-> 500, id |-> None, sugs |-> sugs, rows |-> rows]
        ELSE [status |-> 200, id |-> Len(sugs) + 1,
              sugs |-> Append(sugs, [user_id |-> None, text |-> v.text,
                                     is_approved |-> TRUE, source |-> "system"]),
              rows |-> IF fault2 THEN rows ELSE UpsertDaily(rows, day, Len(sugs) + 1)]

\* GET /suggestions/daily: the id of the tip
get_daily_suggestion(sugs, rows, day) ==
    LET row == {r \in rows : r.day = day}
        tip == IF row # {} /\ (CHOOSE r \in row : TRUE).suggestion_id \in 1..Len(sugs)
               THEN (CHOOSE r \in row : TRUE).suggestion_id
               ELSE None
    IN  IF tip # None THEN [status |-> 200, id |-> tip]
        ELSE _get_fallback_global_tip(sugs, day)

\* POST /suggestions/generate
generate_daily_ai_suggestion(sugs, day, uid, hook, fault) ==
    LET g == _generate_ai_suggestion_text(hook)
    IN  IF g.raised = "TypeError" THEN [status |-> 500, id |-> None, sugs |-> sugs]
        ELSE IF g.raised = "HTTPException" \/ fault
        THEN LET f == _get_fallback_global_tip(sugs, day)
             IN  [status |-> IF f.status = 200 THEN 201 ELSE f.status, id |-> f.id, sugs |-> sugs]
        ELSE [status |-> 201, id |-> Len(sugs) + 1,
              sugs |-> Append(sugs, [user_id |-> uid, text |-> g.text,
                                     is_approved |-> TRUE, source |-> "ai"])]

\* mutant of react_to_suggestion: a row is added without looking for the
\* user's row
ReactInsertAlways(sugs, tbl, uid, sid, value, fault) ==
    IF sid \notin 1..Len(sugs) THEN [status |-> 404, found |-> "", tbl |-> tbl]
    ELSE IF fault THEN [status |-> 500, found |-> "", tbl |-> tbl]
    ELSE [status |-> 200, found |-> "",
          tbl |-> tbl \cup {[suggestion_id |-> sid, user_id |-> uid, reaction |-> value]}]

\* POST /suggestions/react
react_to_suggestion(sugs, tbl, uid, sid, value, fault) ==
    LET existing == {r \in tbl : r.suggestion_id = sid /\ r.user_id = uid}
    IN  IF sid \notin 1..Len(sugs) THEN [status |-> 404, found |-> "", tbl |-> tbl]
        ELSE IF fault THEN [status |-> 500, found |-> "", tbl |-> tbl]
        ELSE IF existing # {}
        THEN LET e == CHOOSE r \in existing : TRUE
             IN  [status |-> 200, found |-> e.reaction,
                  tbl |-> (tbl \ {e}) \cup {[e EXCEPT !.reaction = value]}]
        ELSE [status |-> 200, found |-> "",
              tbl |-> tbl \cup {[suggestion_id |-> sid, user_id |-> uid, reaction |-> value]}]

\* mutant of toggle_save_suggestion: the row looked for by suggestion alone
ToggleAnyUser(sugs, tbl, uid, sid, fault) ==
    LET existing == {r \in tbl : r.suggestion_id = sid}
    IN  IF sid \notin 1..Len(sugs) THEN [status |-> 404, saved |-> FALSE, tbl |-> tbl]
        ELSE IF fault THEN [status |-> 500, saved |-> FALSE, tbl |-> tbl]
        ELSE IF existing # {}
        THEN [status |-> 200, saved |-> FALSE, tbl |-> tbl \ {CHOOSE r \in existing : TRUE}]
        ELSE [status |-> 200, saved |-> TRUE,
              tbl |-> tbl \cup {[suggestion_id |-> sid, user_id |-> uid]}]

\* mutant of toggle_save_suggestion: the row found is reported unsaved but
\* not deleted
ToggleNeverDeletes(sugs, tbl, uid, sid, fault) ==
    IF sid \notin 1..Len(sugs) THEN [status |-> 404, saved |-> FALSE, tbl |-> tbl]
    ELSE IF fault THEN [status |-> 500, saved |-> FALSE, tbl |-> tbl]
    ELSE IF \E r \in tbl : r.suggestion_id = sid /\ r.user_id = uid
    THEN [status |-> 200, saved |-> FALSE, tbl |-> tbl]
    ELSE [status |-> 200, saved |-> TRUE,
          tbl |-> tbl \cup {[suggestion_id |-> sid, user_id |-> uid]}]

\* POST /suggestions/save
toggle_save_suggestion(sugs, tbl, uid, sid, fault) ==
    LET existing == {r \in tbl : r.suggestion_id = sid /\ r.user_id = uid}
    IN  IF sid \notin 1..Len(sugs) THEN [status |-> 404, saved |-> FALSE, tbl |-> tbl]
        ELSE IF fault THEN [status |-> 500, saved |-> FALSE, tbl |-> tbl]
        ELSE IF existing # {}
        THEN [status |-> 200, saved |-> FALSE, tbl |-> tbl \ {CHOOSE r \in existing : TRUE}]
        ELSE [status |-> 200, saved |-> TRUE,
              tbl |-> tbl \cup {[suggestion_id |-> sid, user_id |-> uid]}]

\* mutant of add_comment: the suggestion is not looked up
CommentAnySuggestion(sugs, tbl, uid, sid, text, fault) ==
    LET v == _validate_text(text)
    IN  IF v.status # 200 THEN [status |-> 400, tbl |-> tbl]
        ELSE IF fault THEN [status |-> 500, tbl |-> tbl]
        ELSE [status |-> 201,
              tbl |-> Append(tbl, [suggestion_id |-> sid, user_id |-> uid, text |-> v.text])]

\* POST /suggestions/comment
add_comment(sugs, tbl, uid, sid, text, fault) ==
    LET v == _validate_text(text)
    IN  IF sid \notin 1..Len(sugs) THEN [status |-> 404, tbl |-> tbl]
        ELSE IF v.status # 200 THEN [status |-> 400, tbl |-> tbl]
        ELSE IF fault THEN [status |-> 500, tbl |-> tbl]
        ELSE [status |-> 201,
              tbl |-> Append(tbl, [suggestion_id |-> sid, user_id |-> uid, text |-> v.text])]

\* ------------------------------------------------------------------ inputs
\* texts a client sends: empty, blank, plain, padded, quoted
ShortTexts == { <<>>, <<"a">>, <<" ", "b", " ">> }

\* X-API-KEY headers: missing, the configured key, another key
ApiKeys == {"", "k", "x"}

\* bodies the webhook sends: {"reply":"a"}, {"x":"a"}, {"data":{"text":"a"}},
\* [{"message":"a"}], {"reply":" "}, "a", plain text, a blank, nothing
BodyReplyA  == <<"{", DQ, "r", "e", "p", "l", "y", DQ, ":", DQ, "a", DQ, "}">>
BodyOtherA  == <<"{", DQ, "x", DQ, ":", DQ, "a", DQ, "}">>
BodyNestedA == <<"{", DQ, "d", "a", "t", "a", DQ, ":",
                 "{", DQ, "t", "e", "x", "t", DQ, ":", DQ, "a", DQ, "}", "}">>
BodyListA   == <<"[", "{", DQ, "m", "e", "s", "s", "a", "g", "e", DQ, ":", DQ, "a", DQ, "}", "]">>
BodyBlankReply == <<"{", DQ, "r", "e", "p", "l", "y", DQ, ":", DQ, " ", DQ, "}">>
BodyString  == <<DQ, "a", DQ>>
BodyPlain   == <<"h", "i", "\n">>
Bodies == {BodyReplyA, BodyOtherA, BodyNestedA, BodyListA, BodyBlankReply, BodyString,
           BodyPlain, <<" ">>, <<>>}

\* the answers of the webhook to one attempt: no response, a client error, a
\* server error, or HTTP 200 with a body
Answers ==
    {[status |-> 0, body |-> <<>>], [status |-> 404, body |-> <<>>],
     [status |-> 500, body |-> <<>>]}
    \cup {[status |-> 200, body |-> b] : b \in Bodies}

\* the AI webhook: every attempt answered with HTTP 500, or a reply at once
Hook500 == [n \in 1..max_attempts |-> [status |-> 500, body |-> <<>>]]
HookOK  == [n \in 1..max_attempts |-> [status |-> 200, body |-> BodyReplyA]]
Hooks   == {Hook500, HookOK}

\* ----------------------------------------------------------------- actions
Create(u, text, fault) ==
    LET r == create_suggestion(suggestions, u, text, fault)
    IN  /\ Len(r.sugs) <= MaxSuggestions
        /\ suggestions' = r.sugs
        /\ req' = [NoReq EXCEPT !.op = "create", !.user = u, !.text = text]
        /\ resp' = [NoResp EXCEPT !.status = r.status, !.id = r.id]
        /\ UNCHANGED <<aside, reactions, saves, comments, daily, today, env, history>>

Ingest(key, text, fault1, fault2) ==
    LET r == ingest_daily_suggestion(suggestions, daily, today, key, text, fault1, fault2)
    IN  /\ Len(r.sugs) <= MaxSuggestions
        /\ suggestions' = r.sugs
        /\ daily' = r.rows
        /\ req' = [NoReq EXCEPT !.op = "ingest", !.key = key, !.text = text]
        /\ resp' = [NoResp EXCEPT !.status = r.status, !.id = r.id]
        /\ dailySeen' = {}
        /\ ingestLog' = IF r.status = 200
                        THEN Append(ingestLog, _sanitize_text(text))
                        ELSE ingestLog
        /\ UNCHANGED <<aside, reactions, saves, comments, today, env, lastReact, saveOdd>>

Daily(u, hook) ==
    LET r == get_daily_suggestion(suggestions, daily, today)
    IN  /\ req' = [NoReq EXCEPT !.op = "daily", !.user = u, !.hook = hook]
        /\ resp' = [NoResp EXCEPT !.status = r.status, !.id = r.id,
                                  !.items = IF r.status = 200
                                            THEN <<EngagementDTO(r.id, u)>> ELSE <<>>]
        /\ dailySeen' = IF r.status = 200 THEN dailySeen \cup {r.id} ELSE dailySeen
        /\ UNCHANGED <<aside, db, today, env, ingestLog, lastReact, saveOdd>>

Generate(u, hook, fault) ==
    LET r == generate_daily_ai_suggestion(suggestions, today, u, hook, fault)
    IN  /\ Len(r.sugs) <= MaxSuggestions
        /\ suggestions' = r.sugs
        /\ req' = [NoReq EXCEPT !.op = "generate", !.user = u, !.hook = hook]
        /\ resp' = [NoResp EXCEPT !.status = r.status, !.id = r.id]
        /\ UNCHANGED <<aside, reactions, saves, comments, daily, today, env, history>>

Feed(u) ==
    LET ids == FeedIds(suggestions)
    IN  /\ req' = [NoReq EXCEPT !.op = "feed", !.user = u]
        /\ resp' = [NoResp EXCEPT !.status = 200,
                                  !.items = [i \in 1..Len(ids) |-> FeedDTO(ids[i], u)]]
        /\ UNCHANGED <<aside, db, today, env, history>>

React(u, sid, value, fault) ==
    LET r == react_to_suggestion(suggestions, reactions, u, sid, value, fault)
    IN  /\ reactions' = r.tbl
        /\ req' = [NoReq EXCEPT !.op = "react", !.user = u, !.suggestion_id = sid,
                                !.reaction = value]
        /\ resp' = [NoResp EXCEPT !.status = r.status, !.found = r.found]
        /\ lastReact' = IF r.status = 200
                        THEN {h \in lastReact : ~(h.suggestion_id = sid /\ h.user_id = u)}
                             \cup {[suggestion_id |-> sid, user_id |-> u, reaction |-> value]}
                        ELSE lastReact
        /\ UNCHANGED <<aside, suggestions, saves, comments, daily, today, env,
                       dailySeen, ingestLog, saveOdd>>

Save(u, sid, fault) ==
    LET r == toggle_save_suggestion(suggestions, saves, u, sid, fault)
        p == [suggestion_id |-> sid, user_id |-> u]
    IN  /\ saves' = r.tbl
        /\ req' = [NoReq EXCEPT !.op = "save", !.user = u, !.suggestion_id = sid]
        /\ resp' = [NoResp EXCEPT !.status = r.status, !.saved = r.saved]
        /\ saveOdd' = IF r.status # 200 THEN saveOdd
                      ELSE IF p \in saveOdd THEN saveOdd \ {p} ELSE saveOdd \cup {p}
        /\ UNCHANGED <<aside, suggestions, reactions, comments, daily, today, env,
                       dailySeen, ingestLog, lastReact>>

Comment(u, sid, text, fault) ==
    LET r == add_comment(suggestions, comments, u, sid, text, fault)
    IN  /\ Len(r.tbl) <= MaxComments
        /\ comments' = r.tbl
        /\ req' = [NoReq EXCEPT !.op = "comment", !.user = u, !.suggestion_id = sid,
                                !.text = text]
        /\ resp' = [NoResp EXCEPT !.status = r.status,
                                  !.id = IF r.status = 201 THEN Len(r.tbl) ELSE None]
        /\ UNCHANGED <<aside, suggestions, reactions, saves, daily, today, env, history>>

\* one call of generate_response (chat.py, suggestions.py) while the webhook
\* answers attempt n as hook[n]
GenerateResponse(hook) ==
    LET r == generate_response(hook)
    IN  /\ call.made < MaxCalls
        /\ call' = [made |-> call.made + 1, hook |-> hook, raised |-> r.raised, reply |-> r.reply,
                    attempts |-> r.attempts]
        /\ UNCHANGED <<extra, db, today, env, req, resp, history, san, flight, commitLog>>

\* _sanitize_text applied to a text, and again to what it returned
Sanitize(text) ==
    /\ san.done < MaxCalls
    /\ san' = [done |-> san.done + 1, text |-> text, once |-> _sanitize_text(text),
               twice |-> _sanitize_text(_sanitize_text(text))]
    /\ UNCHANGED <<extra, db, today, env, req, resp, history, call, flight, commitLog>>

\* ---------------------------------------------------- concurrent requests
\* A handler that reads a row and then writes runs as two steps of its worker:
\* the queries up to the one that looks for the row, then the write and its
\* commit.  Between the two any other worker may take a step.  The database
\* stays available; the only write that fails is the one a unique constraint
\* refuses (IntegrityError, a SQLAlchemyError).
AllIdle == \A p \in Procs : flight[p].phase = "idle"
Running == {p \in Procs : flight[p].phase # "idle"}

\* the state of the pair before the requests that run now
StartOf(p, now) ==
    IF Running = {} THEN now ELSE flight[CHOOSE q \in Running : TRUE].start

Finish(p, status, saved, conflict, wrote) ==
    /\ flight' = [flight EXCEPT ![p] = [@ EXCEPT !.phase = "done", !.status = status,
                                                 !.saved = saved, !.conflict = conflict]]
    /\ commitLog' = IF wrote THEN Append(commitLog, p) ELSE commitLog

\* react_to_suggestion up to the query for the user's row
BeginReact(p, u, sid, value) ==
    LET existing == {r \in reactions : r.suggestion_id = sid /\ r.user_id = u}
        found    == IF existing = {} THEN "" ELSE (CHOOSE r \in existing : TRUE).reaction
    IN  /\ flight[p].phase = "idle"
        /\ flight' = [flight EXCEPT ![p] =
               IF sid \notin Ids
               THEN [Idle EXCEPT !.op = "react", !.phase = "done", !.user = u, !.sid = sid,
                                 !.value = value, !.status = 404,
                                 !.start = StartOf(p, found)]
               ELSE [Idle EXCEPT !.op = "react", !.phase = "read", !.user = u, !.sid = sid,
                                 !.value = value, !.seen = found,
                                 !.start = StartOf(p, found)]]
        /\ UNCHANGED <<extra, db, today, env, req, resp, history, call, san, commitLog>>

\* react_to_suggestion from the try block on.  A row that was found is an
\* object of the session: assigning the value it already holds changes
\* nothing and the commit sends no UPDATE; another value is an UPDATE by
\* primary key.  No row found: an INSERT, which uq_reaction_suggestion_user
\* refuses when the pair has a row by now.
CommitReact(p) ==
    LET f    == flight[p]
        rows == {r \in reactions : r.suggestion_id = f.sid /\ r.user_id = f.user}
        row  == [suggestion_id |-> f.sid, user_id |-> f.user, reaction |-> f.value]
    IN  /\ f.op = "react" /\ f.phase = "read"
        /\ IF f.seen # ""
           THEN /\ reactions' = IF f.seen = f.value THEN reactions
                                 ELSE (reactions \ rows) \cup {row}
                /\ Finish(p, 200, FALSE, FALSE, TRUE)
           ELSE IF rows # {}
           THEN /\ reactions' = reactions
                /\ Finish(p, 500, FALSE, TRUE, FALSE)
           ELSE /\ reactions' = reactions \cup {row}
                /\ Finish(p, 200, FALSE, FALSE, TRUE)
        /\ UNCHANGED <<extra, suggestions, saves, comments, daily, today, env, req, resp, history,
                       call, san>>

\* toggle_save_suggestion up to the query for the user's row
BeginSave(p, u, sid) ==
    LET found == IF _is_saved(sid, u) THEN "saved" ELSE "unsaved"
    IN  /\ flight[p].phase = "idle"
        /\ flight' = [flight EXCEPT ![p] =
               IF sid \notin Ids
               THEN [Idle EXCEPT !.op = "save", !.phase = "done", !.user = u, !.sid = sid,
                                 !.status = 404, !.start = StartOf(p, found)]
               ELSE [Idle EXCEPT !.op = "save", !.phase = "read", !.user = u, !.sid = sid,
                                 !.seen = found, !.start = StartOf(p, found)]]
        /\ UNCHANGED <<extra, db, today, env, req, resp, history, call, san, commitLog>>

\* toggle_save_suggestion from the try block on.  A row that was found is
\* deleted by primary key; when it is gone by then the DELETE matches no row,
\* which the session reports as a warning, and the handler answers as if it
\* had deleted it.  No row found: an INSERT, which uq_save_suggestion_user
\* refuses when the pair has a row by now.
CommitSave(p) ==
    LET f    == flight[p]
        rows == {r \in saves : r.suggestion_id = f.sid /\ r.user_id = f.user}
    IN  /\ f.op = "save" /\ f.phase = "read"
        /\ IF f.seen = "saved"
           THEN /\ saves' = saves \ rows
                /\ Finish(p, 200, FALSE, FALSE, TRUE)
           ELSE IF rows # {}
           THEN /\ saves' = saves
                /\ Finish(p, 500, FALSE, TRUE, FALSE)
           ELSE /\ saves' = saves \cup {[suggestion_id |-> f.sid, user_id |-> f.user]}
                /\ Finish(p, 200, TRUE, FALSE, TRUE)
        /\ UNCHANGED <<extra, suggestions, reactions, comments, daily, today, env, req, resp,
                       history, call, san>>

\* ingest_daily_suggestion up to the query for the day's row: the key, the
\* text, the suggestion and its commit
BeginIngest(p, key, text) ==
    LET v == _validate_text(text)
        found == IF \E r \in daily : r.day = today THEN "row" ELSE ""
        early == IF env.daily_ingest_key = "" THEN 500
                 ELSE IF key # env.daily_ingest_key THEN 401
                 ELSE IF v.status # 200 THEN 400 ELSE 0
    IN  /\ flight[p].phase = "idle"
        /\ early = 0 => Len(suggestions) < MaxSuggestions
        /\ suggestions' = IF early # 0 THEN suggestions
                          ELSE Append(suggestions, [user_id |-> None, text |-> v.text,
                                                    is_approved |-> TRUE, source |-> "system"])
        /\ flight' = [flight EXCEPT ![p] =
               IF early # 0
               THEN [Idle EXCEPT !.op = "ingest", !.phase = "done", !.status = early,
                                 !.start = StartOf(p, found)]
               ELSE [Idle EXCEPT !.op = "ingest", !.phase = "read", !.seen = found,
                                 !.id = Len(suggestions) + 1,
                                 !.start = StartOf(p, found)]]
        /\ UNCHANGED <<extra, reactions, saves, comments, daily, today, env, req, resp, history,
                       call, san, commitLog>>

\* ingest_daily_suggestion from the second try block on.  A row that was
\* found is updated by primary key; no row found: an INSERT, which
\* uq_global_daily_suggestion_day refuses when the day has a row by now; the
\* handler rolls back and answers ok all the same.
CommitIngest(p) ==
    LET f == flight[p]
    IN  /\ f.op = "ingest" /\ f.phase = "read"
        /\ IF f.seen = "row"
           THEN /\ daily' = UpsertDaily(daily, today, f.id)
                /\ Finish(p, 200, FALSE, FALSE, TRUE)
           ELSE IF \E r \in daily : r.day = today
           THEN /\ daily' = daily
                /\ Finish(p, 200, FALSE, TRUE, FALSE)
           ELSE /\ daily' = daily \cup {[day |-> today, suggestion_id |-> f.id]}
                /\ Finish(p, 200, FALSE, FALSE, TRUE)
        /\ UNCHANGED <<extra, suggestions, reactions, saves, comments, today, env, req, resp,
                       history, call, san>>

\* the responses are out and the workers are free again
Settle ==
    /\ \A p \in Procs : flight[p].phase = "done"
    /\ flight' = [p \in Procs |-> Idle]
    /\ commitLog' = <<>>
    /\ UNCHANGED <<extra, db, today, env, req, resp, history, call, san>>

\* midnight
NextDay ==
    /\ today < FirstDay + MaxDays
    /\ today' = today + 1
    /\ req' = NoReq
    /\ resp' = NoResp
    /\ dailySeen' = {}
    /\ ingestLog' = <<>>
    /\ UNCHANGED <<aside, db, env, lastReact, saveOdd>>

\* ------------------------------------------------------- points and characters
\* table characters as seed_characters_upsert leaves it, two of its rows;
\* row i has id i
Characters == << [asset_key |-> "uzman", cost |-> 40], [asset_key |-> "sporcu", cost |-> 10] >>

\* the modules whose router main.py includes in the application
Routers == {"auth", "mood", "chat", "personality", "suggestions", "gamification", "stats",
            "activity", "user_profile", "character", "user_character"}

\* table rewards, filled by the operator; row i has id i
Rewards == << [points |-> 50], [points |-> 100] >>

calculate_badge(points) ==
    IF points >= 200 THEN "Gold"
    ELSE IF points >= 100 THEN "Silver"
    ELSE IF points >= 50 THEN "Bronze"
    ELSE "Newbie"

\* the user's gamification row, inserted when the query finds none
GetOrCreate(g, uid) ==
    IF uid \in DOMAIN g THEN g ELSE g @@ (uid :> [points |-> 0, badge_level |-> "Newbie"])

\* GET /user/characters: what the handlers of this router answer with
get_user_characters(g, owned, uid) ==
    LET rows   == {r \in owned : r.user_id = uid}
        active == {r \in rows : r.is_active}
    IN  [points |-> IF uid \in DOMAIN g THEN g[uid].points ELSE 0,
         owned  |-> {r.character_id : r \in rows},
         active |-> IF active = {} THEN None ELSE (CHOOSE r \in active : TRUE).character_id]

\* the response of a request on points or characters: an error, what
\* get_user_characters returns after the commit, or the new balance
Answer(op, uid, status) ==
    LET seen == get_user_characters(gamification', user_characters', uid)
    IN  resp' = IF status # 200 THEN [NoResp EXCEPT !.status = status]
                ELSE IF op \in {"buy", "active"}
                THEN [NoResp EXCEPT !.status = status, !.points = seen.points,
                                    !.owned = seen.owned, !.active = seen.active]
                ELSE IF op \in {"add-points", "claim"}
                THEN [NoResp EXCEPT !.status = status, !.points = seen.points]
                ELSE [NoResp EXCEPT !.status = status]

\* POST /gamification/add-points
AddPoints(uid, points) ==
    LET g     == GetOrCreate(gamification, uid)
        total == g[uid].points + points
    IN  /\ total <= MaxPoints
        /\ gamification' =
               IF points <= 0 THEN gamification
               ELSE [g EXCEPT ![uid] = [points |-> total, badge_level |-> calculate_badge(total)]]
        /\ req' = [NoReq EXCEPT !.op = "add-points", !.user = uid, !.points = points]
        /\ UNCHANGED <<user_characters, reward_claims, chat_activity>>
        /\ Answer("add-points", uid, IF points <= 0 THEN 400 ELSE 200)
        /\ UNCHANGED <<tips, flight, commitLog, account>>

\* POST /rewards/claim: answered by claim_reward when the application has
\* the router of rewards.py, by the framework's 404 when it has not
ClaimReward(uid, reward_id) ==
    LET g       == GetOrCreate(gamification, uid)
        already == \E i \in 1..Len(reward_claims) :
                       reward_claims[i] = [user_id |-> uid, reward_id |-> reward_id]
        status  == IF "rewards" \notin Routers THEN 404
                   ELSE IF reward_id \notin 1..Len(Rewards) THEN 404
                   ELSE IF already THEN 409 ELSE 200
    IN  /\ status = 200 => g[uid].points + Rewards[reward_id].points <= MaxPoints
        /\ gamification' =
               IF status = 404 THEN gamification
               ELSE IF status = 409 THEN g
               ELSE [g EXCEPT ![uid].points = @ + Rewards[reward_id].points]
        /\ reward_claims' =
               IF status = 200
               THEN Append(reward_claims, [user_id |-> uid, reward_id |-> reward_id])
               ELSE reward_claims
        /\ req' = [NoReq EXCEPT !.op = "claim", !.user = uid, !.reward_id = reward_id]
        /\ UNCHANGED <<user_characters, chat_activity>>
        /\ Answer("claim", uid, status)
        /\ UNCHANGED <<tips, flight, commitLog, account>>

\* POST /user/characters/buy
BuyCharacter(uid, character_id) ==
    LET g       == GetOrCreate(gamification, uid)
        already == \E r \in user_characters :
                       r.user_id = uid /\ r.character_id = character_id
        status  == IF character_id \notin 1..Len(Characters) THEN 404
                   ELSE IF g[uid].points < Characters[character_id].cost THEN 400
                   ELSE 200
        buys    == status = 200 /\ ~already
    IN  /\ gamification' =
               IF status = 404 THEN gamification
               ELSE IF buys THEN [g EXCEPT ![uid].points = @ - Characters[character_id].cost]
               ELSE g
        /\ user_characters' =
               IF buys
               THEN user_characters \cup {[user_id |-> uid, character_id |-> character_id,
                                           is_active |-> FALSE]}
               ELSE user_characters
        /\ req' = [NoReq EXCEPT !.op = "buy", !.user = uid, !.character_id = character_id]
        /\ UNCHANGED <<reward_claims, chat_activity>>
        /\ Answer("buy", uid, status)
        /\ UNCHANGED <<tips, flight, commitLog, account>>

\* mutant of SetActiveCharacter: the other rows of the user keep their flag
SetActiveKeepsOthers(uid, character_id) ==
    LET owned == \E r \in user_characters :
                     r.user_id = uid /\ r.character_id = character_id
    IN  /\ user_characters' =
               IF ~owned THEN user_characters
               ELSE {IF r.user_id = uid /\ r.character_id = character_id
                     THEN [r EXCEPT !.is_active = TRUE]
                     ELSE r : r \in user_characters}
        /\ req' = [NoReq EXCEPT !.op = "active", !.user = uid, !.character_id = character_id]
        /\ UNCHANGED <<gamification, reward_claims, chat_activity>>
        /\ Answer("active", uid, IF owned THEN 200 ELSE 400)
        /\ UNCHANGED <<tips, flight, commitLog, account>>

\* PUT /user/characters/active: the UPDATE of every row of the user reaches
\* the row the session holds too, so the assignment after it is a change
SetActiveCharacter(uid, character_id) ==
    LET owned == \E r \in user_characters :
                     r.user_id = uid /\ r.character_id = character_id
    IN  /\ user_characters' =
               IF ~owned THEN user_characters
               ELSE {IF r.user_id = uid
                     THEN [r EXCEPT !.is_active = (r.character_id = character_id)]
                     ELSE r : r \in user_characters}
        /\ req' = [NoReq EXCEPT !.op = "active", !.user = uid, !.character_id = character_id]
        /\ UNCHANGED <<gamification, reward_claims, chat_activity>>
        /\ Answer("active", uid, IF owned THEN 200 ELSE 400)
        /\ UNCHANGED <<tips, flight, commitLog, account>>

\* POST /activity/chat; fault says that the commit raises SQLAlchemyError
LogChatActivity(uid, fault) ==
    LET g == GetOrCreate(gamification, uid)
    IN  /\ Len(chat_activity) < MaxChats
        /\ gamification' = IF fault THEN gamification
                           ELSE [g EXCEPT ![uid].points = @ + 1]
        /\ chat_activity' = IF fault THEN chat_activity
                            ELSE Append(chat_activity, [user_id |-> uid])
        /\ req' = [NoReq EXCEPT !.op = "chat", !.user = uid]
        /\ UNCHANGED <<user_characters, reward_claims>>
        /\ Answer("chat", uid, IF fault THEN 500 ELSE 200)
        /\ UNCHANGED <<tips, flight, commitLog, account>>

\* buy_character up to the query for the user's row of the character: the
\* character, the user's points (their row inserted and committed when there
\* is none) and the comparison with the cost
BeginBuy(p, uid, character_id) ==
    LET g       == GetOrCreate(gamification, uid)
        already == \E r \in user_characters :
                       r.user_id = uid /\ r.character_id = character_id
        early   == IF character_id \notin 1..Len(Characters) THEN 404
                   ELSE IF g[uid].points < Characters[character_id].cost THEN 400
                   ELSE IF already THEN 200
                   ELSE 0
    IN  /\ flight[p].phase = "idle"
        /\ gamification' = IF early = 404 THEN gamification ELSE g
        /\ flight' = [flight EXCEPT ![p] =
               IF early # 0
               THEN [Idle EXCEPT !.op = "buy", !.phase = "done", !.user = uid,
                                 !.sid = character_id, !.status = early]
               ELSE [Idle EXCEPT !.op = "buy", !.phase = "read", !.user = uid,
                                 !.sid = character_id, !.points = g[uid].points]]
        /\ UNCHANGED <<tips, req, resp, commitLog, user_characters, reward_claims,
                       chat_activity, account>>

\* buy_character from the deduction on.  The points are assigned from the
\* value the session read, so the UPDATE carries that value less the cost;
\* the INSERT is refused by uq_user_character when the user has the row by
\* now, and the request fails with its UPDATE undone.
CommitBuy(p) ==
    LET f     == flight[p]
        taken == \E r \in user_characters : r.user_id = f.user /\ r.character_id = f.sid
    IN  /\ f.op = "buy" /\ f.phase = "read"
        /\ IF taken
           THEN /\ UNCHANGED <<gamification, user_characters>>
                /\ Finish(p, 500, FALSE, TRUE, FALSE)
           ELSE /\ gamification' = [gamification EXCEPT
                                       ![f.user].points = f.points - Characters[f.sid].cost]
                /\ user_characters' = user_characters \cup
                       {[user_id |-> f.user, character_id |-> f.sid, is_active |-> FALSE]}
                /\ Finish(p, 200, FALSE, FALSE, TRUE)
        /\ UNCHANGED <<tips, req, resp, reward_claims, chat_activity, account>>

\* ----------------------------------------------------------------- accounts
\* the e-mail addresses of the users, as register stored them
Emails == [u \in Users |-> IF u = 1 THEN <<"j", "o", "@", "n">> ELSE <<"s", "o", "@", "n">>]

normalize_email(email) == Lower(Strip(email))

\* the id of the user with the address, or None
get_user_by_email(email) ==
    IF \E u \in Users : Emails[u] = normalize_email(email)
    THEN CHOOSE u \in Users : Emails[u] = normalize_email(email)
    ELSE None

\* the user whose password it is, or None
authenticate_user(email, password) ==
    LET u == get_user_by_email(email)
    IN  IF u # None /\ users[u].password = password THEN u ELSE None

\* the token login signs, and the one request_password_reset signs
AccessToken(u) == [valid |-> TRUE, sub |-> Emails[u], user_id |-> u, type |-> ""]
ResetToken(u)  == [valid |-> TRUE, sub |-> Emails[u], user_id |-> None, type |-> "password_reset"]

\* the dependency of the guarded routes: the user of the bearer token, or 401
get_current_user(token) ==
    IF ~token.valid THEN [status |-> 401, user |-> None]
    ELSE IF token.user_id \in Users THEN [status |-> 200, user |-> token.user_id]
    ELSE IF token.sub = <<>> THEN [status |-> 401, user |-> None]
    ELSE IF get_user_by_email(token.sub) = None THEN [status |-> 401, user |-> None]
    ELSE [status |-> 200, user |-> get_user_by_email(token.sub)]

\* the user a reset token names, or the 400 raised
verify_password_reset_token(token) ==
    IF ~token.valid THEN [status |-> 400, user |-> None]
    ELSE IF token.type # "password_reset" \/ token.sub = <<>> THEN [status |-> 400, user |-> None]
    ELSE IF get_user_by_email(token.sub) = None THEN [status |-> 400, user |-> None]
    ELSE [status |-> 200, user |-> get_user_by_email(token.sub)]

\* POST /auth/login
Login(email, password) ==
    LET u == authenticate_user(email, password)
    IN  /\ issued' = IF u = None THEN issued ELSE issued \cup {AccessToken(u)}
        /\ req' = [NoReq EXCEPT !.op = "login", !.text = email, !.password = password]
        /\ resp' = IF u = None THEN [NoResp EXCEPT !.status = 401]
                   ELSE [NoResp EXCEPT !.status = 200, !.user = u, !.token = AccessToken(u)]
        /\ UNCHANGED <<tips, flight, commitLog, shop, users, personality_responses,
                       user_profiles>>

\* POST /auth/request-password-reset; sent says that the e-mail went out,
\* otherwise the response carries the token
RequestPasswordReset(email, sent) ==
    LET u == get_user_by_email(email)
    IN  /\ issued' = IF u = None THEN issued ELSE issued \cup {ResetToken(u)}
        /\ req' = [NoReq EXCEPT !.op = "request-reset", !.text = email]
        /\ resp' = IF u = None \/ sent THEN [NoResp EXCEPT !.status = 200]
                   ELSE [NoResp EXCEPT !.status = 200, !.token = ResetToken(u)]
        /\ UNCHANGED <<tips, flight, commitLog, shop, users, personality_responses,
                       user_profiles>>

\* POST /auth/reset-password
ResetPassword(token, new_password) ==
    LET v == verify_password_reset_token(token)
    IN  /\ users' = IF v.status = 200 THEN [users EXCEPT ![v.user].password = new_password]
                    ELSE users
        /\ req' = [NoReq EXCEPT !.op = "reset", !.token = token, !.password = new_password]
        /\ resp' = [NoResp EXCEPT !.status = v.status, !.user = v.user]
        /\ UNCHANGED <<tips, flight, commitLog, shop, personality_responses, user_profiles,
                       issued>>

\* GET /auth/me
Me(token) ==
    LET c == get_current_user(token)
    IN  /\ req' = [NoReq EXCEPT !.op = "me", !.token = token]
        /\ resp' = [NoResp EXCEPT !.status = c.status, !.user = c.user]
        /\ UNCHANGED <<tips, flight, commitLog, shop, account>>

\* POST /auth/onboarding/complete
CompleteOnboarding(token) ==
    LET c == get_current_user(token)
    IN  /\ users' = IF c.status = 200
                    THEN [users EXCEPT ![c.user].onboarding_completed = TRUE]
                    ELSE users
        /\ req' = [NoReq EXCEPT !.op = "complete", !.token = token, !.user = c.user]
        /\ resp' = [NoResp EXCEPT !.status = c.status, !.user = c.user]
        /\ UNCHANGED <<tips, flight, commitLog, shop, personality_responses, user_profiles,
                       issued>>

\* mutant of SubmitPersonality: the flag of the user is not read
SubmitUnchecked(token, answers) ==
    LET c == get_current_user(token)
    IN  /\ req' = [NoReq EXCEPT !.op = "submit", !.token = token, !.user = c.user,
                                !.text = answers]
        /\ resp' = [NoResp EXCEPT !.status = IF c.status # 200 THEN c.status ELSE 500,
                                  !.user = c.user]
        /\ UNCHANGED <<tips, flight, commitLog, shop, account>>

\* POST /personality/submit.  The module imports PersonalityResponse and User
\* from models; the name UserProfile in the query for the profile is not
\* bound, so a request that passes the 409 raises NameError, which the except
\* clause for SQLAlchemyError does not catch: the answer is 500 and the
\* session, with the response row added to it, is closed uncommitted.
SubmitPersonality(token, answers) ==
    LET c == get_current_user(token)
    IN  /\ req' = [NoReq EXCEPT !.op = "submit", !.token = token, !.user = c.user,
                                !.text = answers]
        /\ resp' = [NoResp EXCEPT !.status = IF c.status # 200 THEN c.status
                                             ELSE IF users[c.user].onboarding_completed
                                             THEN 409 ELSE 500,
                                  !.user = c.user]
        /\ UNCHANGED <<tips, flight, commitLog, shop, account>>

\* -------------------------------------------------------------------- spec
\* a deployment: empty tables, the environment as the operator set it
Deployment ==
    /\ suggestions = <<>>
    /\ reactions = {}
    /\ saves = {}
    /\ comments = <<>>
    /\ daily = {}
    /\ today = FirstDay
    /\ env \in [auto_approve : BOOLEAN, daily_ingest_key : {"", "k"}, ai_webhook_url : BOOLEAN]
    /\ req = NoReq
    /\ resp = NoResp
    /\ dailySeen = {}
    /\ ingestLog = <<>>
    /\ lastReact = {}
    /\ saveOdd = {}
    /\ call = NoCall
    /\ san = NoSan
    /\ flight = [p \in Procs |-> Idle]
    /\ commitLog = <<>>
    /\ gamification = <<>>
    /\ user_characters = {}
    /\ reward_claims = <<>>
    /\ chat_activity = <<>>
    /\ users = [u \in Users |-> [onboarding_completed |-> FALSE, password |-> "p"]]
    /\ personality_responses = <<>>
    /\ user_profiles = <<>>
    /\ issued = {}

\* the AI webhook is configured (AI_WEBHOOK_URL)
Init == Deployment /\ env.ai_webhook_url

\* the daily tip: every request that writes suggestions or the day's row,
\* the two that read the tip, the feed, and midnight
Next ==
    \/ \E u \in Users, text \in ShortTexts, fault \in BOOLEAN : Create(u, text, fault)
    \/ \E key \in ApiKeys, text \in ShortTexts, f1, f2 \in BOOLEAN : Ingest(key, text, f1, f2)
    \/ \E u \in Users, hook \in Hooks : Daily(u, hook)
    \/ \E u \in Users, hook \in Hooks, fault \in BOOLEAN : Generate(u, hook, fault)
    \/ \E u \in Users : Feed(u)
    \/ NextDay

Spec == Init /\ [][Next]_vars

\* engagement: suggestions of one text, with the key configured
InitEngage == Init /\ env.daily_ingest_key = "k"

SidInputs == 1..(MaxSuggestions + 1)      \* ids a client names: the rows, and one that is no row

\* reactions
NextReact ==
    \/ \E u \in Users : Create(u, <<"a">>, FALSE)
    \/ Ingest("k", <<"a">>, FALSE, FALSE)
    \/ \E u \in Users, sid \in SidInputs, value \in Reactions, fault \in BOOLEAN :
           React(u, sid, value, fault)
    \/ \E u \in Users : Feed(u)
    \/ \E u \in Users : Daily(u, HookOK)

SpecReact == InitEngage /\ [][NextReact]_vars

\* saves and comments
NextSave ==
    \/ \E u \in Users : Create(u, <<"a">>, FALSE)
    \/ Ingest("k", <<"a">>, FALSE, FALSE)
    \/ \E u \in Users, sid \in SidInputs, fault \in BOOLEAN : Save(u, sid, fault)
    \/ \E u \in Users, sid \in SidInputs, text \in {<<>>, <<"a">>}, fault \in BOOLEAN :
           Comment(u, sid, text, fault)
    \/ \E u \in Users : Feed(u)
    \/ \E u \in Users : Daily(u, HookOK)

SpecSave == InitEngage /\ [][NextSave]_vars

\* text validation: Create with texts around the length limit
Pad(n) == [i \in 1..n |-> "a"]

LongLens == (MaxTextLen - PadSlack)..(MaxTextLen + PadSlack)

\* a text that sanitizes to n characters: plain, padded with blanks, quoted,
\* or with a run of blanks inside
LongTexts ==
    UNION {{ Pad(n),
             <<" ">> \o Pad(n) \o <<" ", "\n">>,
             <<DQ>> \o Pad(n) \o <<DQ>>,
             Pad(n \div 2) \o <<" ", "\t">> \o Pad(n - (n \div 2) - 1) } : n \in LongLens}

\* texts that sanitize to nothing
EmptyTexts == { <<>>, <<" ">>, <<DQ, DQ>>, <<"'", " ", "'">>, Fence \o Fence, Fence }

BoundaryTexts == ShortTexts \cup EmptyTexts \cup LongTexts

NextText == \E text \in BoundaryTexts, fault \in BOOLEAN : Create(1, text, fault)

SpecText == InitEngage /\ [][NextText]_vars

\* reactions and saves together, read through the feed and the daily tip
NextEngage ==
    \/ Create(1, <<"a">>, FALSE)
    \/ \E u \in Users, sid \in 1..MaxSuggestions, value \in Reactions :
           React(u, sid, value, FALSE)
    \/ \E u \in Users, sid \in 1..MaxSuggestions : Save(u, sid, FALSE)
    \/ \E u \in Users : Feed(u)
    \/ \E u \in Users : Daily(u, HookOK)

SpecEngage == InitEngage /\ [][NextEngage]_vars

\* the AI client alone, against every sequence of answers of the webhook
HookInputs == [1..max_attempts -> Answers]

InitAI == Deployment /\ env.auto_approve /\ env.daily_ingest_key = "k"

\* one environment: suggestions approved at once, the ingest key set
InitOne == InitEngage /\ env.auto_approve

NextAI == \E hook \in HookInputs : GenerateResponse(hook)

SpecAI == InitAI /\ [][NextAI]_vars

\* _sanitize_text alone, over every text of up to MaxLen characters of an
\* alphabet with a letter, a blank, the two quotes and the backtick
MaxLen == 4
Alphabet == {"a", " ", DQ, "'", BT}

TextsOfLen(n) == [1..n -> Alphabet]
SanTexts == UNION {TextsOfLen(n) : n \in 0..MaxLen}

NextSan == \E text \in SanTexts : Sanitize(text)

SpecSan == InitOne /\ [][NextSan]_vars

\* concurrent React requests on suggestions that exist
NextRaceReact ==
    \/ AllIdle /\ Create(1, <<"a">>, FALSE)
    \/ \E p \in Procs, u \in Users, sid \in 1..MaxSuggestions, value \in Reactions :
           BeginReact(p, u, sid, value)
    \/ \E p \in Procs : CommitReact(p)
    \/ Settle

SpecRaceReact == InitOne /\ [][NextRaceReact]_vars

\* concurrent Save requests
NextRaceSave ==
    \/ AllIdle /\ Create(1, <<"a">>, FALSE)
    \/ \E p \in Procs, u \in Users, sid \in 1..MaxSuggestions : BeginSave(p, u, sid)
    \/ \E p \in Procs : CommitSave(p)
    \/ Settle

SpecRaceSave == InitOne /\ [][NextRaceSave]_vars

\* concurrent ingest-daily requests, and midnight
NextRaceIngest ==
    \/ \E p \in Procs, key \in {"k", "x"}, text \in {<<>>, <<"a">>, <<"b">>} :
           BeginIngest(p, key, text)
    \/ \E p \in Procs : CommitIngest(p)
    \/ Settle
    \/ AllIdle /\ NextDay

SpecRaceIngest == InitOne /\ [][NextRaceIngest]_vars

\* points, rewards and characters: ids a client names are the rows and one
\* that is no row; points a client sends are none, and a Bronze's worth
PointInputs == {0, 50}

NextShop ==
    \/ \E points \in PointInputs : AddPoints(1, points)
    \/ \E uid \in Users, reward_id \in 1..(Len(Rewards) + 1) : ClaimReward(uid, reward_id)
    \/ \E character_id \in 1..(Len(Characters) + 1) : BuyCharacter(1, character_id)
    \/ \E fault \in BOOLEAN : LogChatActivity(1, fault)

SpecShop == InitOne /\ [][NextShop]_vars

\* characters: two users with a first top-up each, buying and choosing
NextCharacters ==
    \/ \E uid \in Users : uid \notin DOMAIN gamification /\ AddPoints(uid, 50)
    \/ \E uid \in Users, character_id \in 1..(Len(Characters) + 1) :
           BuyCharacter(uid, character_id)
    \/ \E uid \in Users, character_id \in 1..(Len(Characters) + 1) :
           SetActiveCharacter(uid, character_id)

SpecCharacters == InitOne /\ [][NextCharacters]_vars

\* every request that writes a row of the suggestions tables, by one user:
\* texts that are refused, kept as sent, and trimmed
RowTexts == { <<>>, <<"a">>, <<" ", "b", " ">> }

NextRows ==
    \/ \E text \in RowTexts : Create(1, text, FALSE)
    \/ \E key \in {"k", "x"}, text \in RowTexts : Ingest(key, text, FALSE, FALSE)
    \/ Generate(1, HookOK, FALSE)
    \/ \E sid \in SidInputs : React(1, sid, "like", FALSE)
    \/ \E sid \in SidInputs : Save(1, sid, FALSE)
    \/ \E sid \in SidInputs, text \in RowTexts : Comment(1, sid, text, FALSE)

SpecRows == InitOne /\ [][NextRows]_vars

\* the texts of the rows: every writer of a text, with texts that are
\* refused, trimmed, of the greatest length and one longer
ValidTexts == { <<>>, <<" ", "b", " ">>, Pad(MaxTextLen), Pad(MaxTextLen + 1) }

NextValid ==
    \/ \E text \in ValidTexts : Create(1, text, FALSE)
    \/ \E text \in ValidTexts : Ingest("k", text, FALSE, FALSE)
    \/ Generate(1, HookOK, FALSE)
    \/ \E text \in ValidTexts : Comment(1, 1, text, FALSE)

SpecValid == InitOne /\ [][NextValid]_vars

\* concurrent buy requests of one user, between top-ups and claims
NextRaceBuy ==
    \/ AddPoints(1, 50)
    \/ ClaimReward(1, 1)
    \/ \E p \in Procs, character_id \in 1..(Len(Characters) + 1) : BeginBuy(p, 1, character_id)
    \/ \E p \in Procs : CommitBuy(p)
    \/ Settle

SpecRaceBuy == InitOne /\ [][NextRaceBuy]_vars

\* accounts: addresses as stored, in capitals, and of nobody; the password
\* set at registration and another; tokens signed by the server and one
\* that is not
EmailInputs == {Emails[1], Emails[2], <<"J", "O", "@", "n">>, <<"n", "o", "@", "n">>}
Passwords   == {"p", "q"}
TokenInputs == issued \cup {NoToken}

NextAccount ==
    \/ \E email \in EmailInputs, password \in Passwords : Login(email, password)
    \/ \E email \in EmailInputs, sent \in BOOLEAN : RequestPasswordReset(email, sent)
    \/ \E token \in TokenInputs, password \in Passwords : ResetPassword(token, password)
    \/ \E token \in TokenInputs : Me(token)
    \/ \E token \in TokenInputs : CompleteOnboarding(token)
    \/ \E token \in TokenInputs : SubmitPersonality(token, <<"a">>)

SpecAccount == InitOne /\ [][NextAccount]_vars

\* ------------------------------------------------------------------ claims
\* what the claims speak of, stated on the tables
TodayMapped  == \E r \in daily : r.day = today
ApprovedIds  == {i \in Ids : suggestions[i].is_approved}
PreferredIds == {i \in ApprovedIds : suggestions[i].source \in {"system", "ai"}}
PoolIds      == IF PreferredIds # {} THEN PreferredIds ELSE ApprovedIds
RowsOf(tbl, sid, uid) == {r \in tbl : r.suggestion_id = sid /\ r.user_id = uid}

\* C1: all Daily requests of one calendar day, with no ingest-daily call
\* between them, return the same suggestion id, whatever other requests are
\* interleaved.
C1_DailyIsStable == Cardinality(dailySeen) <= 1

\* C2: without a row for today the daily tip is pool[ordinal(D) mod N]: the
\* tip is in the pool (the approved system/ai rows if any, else the approved
\* rows), and the number of pool ids below it is today mod the pool size;
\* nothing of the requester enters.
C2_FallbackByOrdinal ==
    (req.op = "daily" /\ ~TodayMapped /\ PoolIds # {}) =>
        /\ resp.status = 200
        /\ resp.id \in PoolIds
        /\ Cardinality({i \in PoolIds : i < resp.id}) = today % Cardinality(PoolIds)

C2_Witness ==
    /\ req.op = "daily" /\ ~TodayMapped /\ resp.status = 200
    /\ Cardinality(PoolIds) >= 2
    /\ \E i \in PoolIds : i < resp.id

\* C3: a Generate request during which the webhook answers every attempt
\* with HTTP 500, with a non-empty approved pool, responds 201 with the
\* fallback tip.
C3_GenerateFallsBack ==
    (req.op = "generate" /\ req.hook = Hook500 /\ PoolIds # {}) =>
        (resp.status = 201 /\ resp.id \in PoolIds)

\* C4: after two ingest-daily calls of one day with different texts, every
\* later Daily of that day returns the suggestion holding the second text.
C4_SecondIngestWins ==
    (/\ req.op = "daily"
     /\ Len(ingestLog) >= 2
     /\ ingestLog[Len(ingestLog)] # ingestLog[Len(ingestLog) - 1]) =>
        (resp.status = 200 /\ suggestions[resp.id].text = ingestLog[Len(ingestLog)])

\* C5: there is at most one reaction row per (suggestion, user), and it holds
\* the value of the user's last React on that suggestion.
C5_ReactionUpsert ==
    \A sid \in SidInputs, u \in Users :
        /\ Cardinality(RowsOf(reactions, sid, u)) <= 1
        /\ RowsOf(reactions, sid, u) = RowsOf(lastReact, sid, u)

\* like, then dislike: one row, holding dislike
C5_Witness ==
    /\ req.op = "react" /\ resp.status = 200
    /\ resp.found = "like" /\ req.reaction = "dislike"
    /\ RowsOf(reactions, req.suggestion_id, req.user) =
           {[suggestion_id |-> req.suggestion_id, user_id |-> req.user, reaction |-> "dislike"]}

\* C6: the save row of a pair exists exactly when the pair has had an odd
\* number of Save calls, and each call returns the state it left.
C6_SaveParity ==
    /\ \A sid \in SidInputs, u \in Users :
           _is_saved(sid, u) <=> ([suggestion_id |-> sid, user_id |-> u] \in saveOdd)
    /\ (req.op = "save" /\ resp.status = 200) =>
           (resp.saved <=> _is_saved(req.suggestion_id, req.user))

\* the second call of a pair: unsaved again
C6_Witness ==
    /\ req.op = "save" /\ resp.status = 200 /\ ~resp.saved
    /\ ~_is_saved(req.suggestion_id, req.user)
    /\ \E r \in saves : r.user_id # req.user

\* C7: every suggestion in the output of Feed has source user.
C7_FeedOnlyUser ==
    req.op = "feed" =>
        \A i \in 1..Len(resp.items) : suggestions[resp.items[i].id].source = "user"

C7_Witness ==
    /\ req.op = "feed" /\ resp.items # <<>>
    /\ \E i \in ApprovedIds : suggestions[i].source = "system"

\* C8: Create answers 400, and leaves the table as it was, exactly when the
\* sanitized text is empty or longer than 500 characters; 500 characters are
\* accepted and 501 are not.
C8_CreateValidates ==
    [][req'.op = "create" =>
          /\ (resp'.status = 400) <=>
                 (\/ _sanitize_text(req'.text) = <<>>
                  \/ Len(_sanitize_text(req'.text)) > 500)
          /\ resp'.status = 400 => suggestions' = suggestions
          /\ resp'.status = 201 =>
                 /\ Len(suggestions') = Len(suggestions) + 1
                 /\ suggestions'[Len(suggestions')].text = _sanitize_text(req'.text)
          /\ Len(_sanitize_text(req'.text)) = 500 => resp'.status # 400
          /\ Len(_sanitize_text(req'.text)) = 501 => resp'.status = 400]_vars

\* a text of 501 characters refused after one of 500 was stored
C8_Witness ==
    /\ req.op = "create" /\ resp.status = 400
    /\ Len(_sanitize_text(req.text)) = 501
    /\ \E i \in Ids : Len(suggestions[i].text) = 500

\* C9: a Daily request that finds no row for today, while the webhook would
\* reply, leaves a row for today behind.
C9_DailyWritesMapping ==
    (req.op = "daily" /\ req.hook = HookOK /\ resp.status = 200) => TodayMapped

\* C10: with an empty approved pool at fallback time (Daily without a row for
\* today, Generate whose generation fails), the response is 404.
C10_EmptyPoolIs404 ==
    (/\ PoolIds = {}
     /\ \/ (req.op = "daily" /\ ~TodayMapped)
        \/ (req.op = "generate" /\ req.hook = Hook500)) =>
        resp.status = 404

\* C11: an ingest-daily request whose key is missing or is not the configured
\* one is refused (401; 500 when the server has no key) and writes nothing:
\* no suggestion row, the day's mapping as it was, whatever the text.
C11_BadKeyWritesNothing ==
    [][(req'.op = "ingest" /\ req'.key # env.daily_ingest_key) =>
          /\ suggestions' = suggestions
          /\ daily' = daily
          /\ resp'.status = IF env.daily_ingest_key = "" THEN 500 ELSE 401]_vars

\* a missing key with a text that would pass, while the day has its mapping
C11_Witness ==
    /\ req.op = "ingest" /\ req.key = "" /\ resp.status = 401
    /\ _sanitize_text(req.text) # <<>>
    /\ TodayMapped

\* C12: ingest-daily is all-or-nothing: either it reports ok with the id of a
\* new system suggestion that today's mapping points at, or it reports
\* failure and leaves neither a new suggestion nor a changed mapping.
C12_IngestAllOrNothing ==
    [][req'.op = "ingest" =>
          \/ /\ resp'.status = 200
             /\ Len(suggestions') = Len(suggestions) + 1
             /\ resp'.id = Len(suggestions')
             /\ suggestions'[resp'.id].source = "system"
             /\ [day |-> today, suggestion_id |-> resp'.id] \in daily'
          \/ /\ resp'.status # 200
             /\ suggestions' = suggestions
             /\ daily' = daily]_vars

\* C13: an attempt the webhook answered with a 4xx status is the last one of
\* its call: no further attempt follows it.
C13_NoRetryAfter4xx ==
    call.made > 0 =>
        \A n \in 1..(call.attempts - 1) : call.hook[n].status \notin 400..499

\* an answer that makes an attempt fail: no response, a status of 400 or
\* above, an empty body, or JSON without a recognised reply field
AnswerFails(o) ==
    \/ o.status = 0
    \/ o.status >= 400
    \/ Strip(o.body) = <<>>
    \/ (JsonLoads(o.body).ok /\ ~_extract_reply(JsonLoads(o.body).val).found)

IsPartOf(t, body) ==
    \E i \in 1..Len(body) : \E j \in i..Len(body) : SubSeq(body, i, j) = t

C15_SanitizeIdempotent == san.done > 0 => san.twice = san.once

\* C16: every suggestion in a Feed response, and the suggestion of every
\* Daily response, is approved.
C16_OnlyApprovedShown ==
    /\ req.op = "feed" =>
           \A i \in 1..Len(resp.items) : suggestions[resp.items[i].id].is_approved
    /\ (req.op = "daily" /\ resp.status = 200) => suggestions[resp.id].is_approved

\* the fallback passes over an unapproved row
C16_Witness ==
    /\ req.op = "daily" /\ resp.status = 200 /\ ~TodayMapped
    /\ \E i \in Ids : i < resp.id /\ ~suggestions[i].is_approved

\* C17: in every Feed and Daily response, likes and dislikes of an item are
\* the numbers of reaction rows of its suggestion with these values, is_saved
\* says whether the reader has a save row for it, and a Feed item is what
\* Daily's per-item queries give for the same suggestion and reader.
C17_EngagementCounts ==
    req.op \in {"feed", "daily"} =>
        \A i \in 1..Len(resp.items) :
            LET item == resp.items[i]
            IN  /\ item.likes = Cardinality({r \in reactions :
                       r.suggestion_id = item.id /\ r.reaction = "like"})
                /\ item.dislikes = Cardinality({r \in reactions :
                       r.suggestion_id = item.id /\ r.reaction = "dislike"})
                /\ item.is_saved <=>
                       ([suggestion_id |-> item.id, user_id |-> req.user] \in saves)
                /\ item = EngagementDTO(item.id, req.user)

\* a feed item liked by one user and disliked by another, saved by another
\* user than the reader
C17_Witness ==
    /\ req.op = "feed"
    /\ \E i \in 1..Len(resp.items) :
           /\ resp.items[i].likes = 1 /\ resp.items[i].dislikes = 1
           /\ ~resp.items[i].is_saved
           /\ \E r \in saves : r.suggestion_id = resp.items[i].id /\ r.user_id # req.user

\* the last worker whose write was committed
LastWriter == flight[commitLog[Len(commitLog)]]

\* C18: when the ingest-daily requests that ran together have all answered
\* ok, none of them hit the unique constraint on the day, the day has exactly
\* one row, and the row points at the suggestion of the last writer.
C18_MappingUpsert ==
    (\A p \in Procs : flight[p].op = "ingest" /\ flight[p].phase = "done"
                      /\ flight[p].status = 200) =>
        /\ \A p \in Procs : ~flight[p].conflict
        /\ Cardinality({r \in daily : r.day = today}) = 1
        /\ \A r \in daily : r.day = today => r.suggestion_id = LastWriter.id

\* the injective orders of the workers
Orders == {f \in [1..MaxProcs -> Procs] : \A i, j \in 1..MaxProcs : f[i] = f[j] => i = j}

\* whether the pair is saved after k toggles
SavedAfter(start, k) == IF k % 2 = 1 THEN start = "unsaved" ELSE start = "saved"

\* C19: when the Save requests of one user on one suggestion that ran together
\* are all over, there is a serial order of them that gives every request its
\* result and the pair its state: none failed, the saved flags alternate from
\* the state before, and the row is there after an odd number of them.
C19_SaveSerializable ==
    (\A p \in Procs : /\ flight[p].op = "save" /\ flight[p].phase = "done"
                      /\ flight[p].status # 404
                      /\ flight[p].user = flight[1].user /\ flight[p].sid = flight[1].sid) =>
        \E ord \in Orders :
            /\ \A k \in 1..MaxProcs :
                   /\ flight[ord[k]].status = 200
                   /\ flight[ord[k]].saved = SavedAfter(flight[1].start, k)
            /\ _is_saved(flight[1].sid, flight[1].user) = SavedAfter(flight[1].start, MaxProcs)

\* C20: when the React requests of one user on one suggestion that ran
\* together are all over, all succeeded, the pair has exactly one row, and the
\* row holds the value of the last writer.
C20_ReactRaceUpserts ==
    (\A p \in Procs : /\ flight[p].op = "react" /\ flight[p].phase = "done"
                      /\ flight[p].status # 404
                      /\ flight[p].user = flight[1].user /\ flight[p].sid = flight[1].sid) =>
        /\ \A p \in Procs : flight[p].status = 200
        /\ Cardinality(RowsOf(reactions, flight[1].sid, flight[1].user)) = 1
        /\ \A r \in RowsOf(reactions, flight[1].sid, flight[1].user) :
               r.reaction = LastWriter.value

\* every row that names a suggestion names one that exists
RefsExist ==
    /\ \A r \in reactions : r.suggestion_id \in Ids
    /\ \A r \in saves : r.suggestion_id \in Ids
    /\ \A i \in 1..Len(comments) : comments[i].suggestion_id \in Ids
    /\ \A r \in daily : r.suggestion_id \in Ids

\* C21: after every step each reaction, save, comment and day's row names a
\* suggestion that exists, and a React, Save or Comment that names an id with
\* no suggestion answers 404 and leaves the three tables as they were.
C21_RowsReferenceSuggestions ==
    [][ /\ RefsExist'
        /\ (req'.op \in {"react", "save", "comment"} /\ req'.suggestion_id \notin Ids)
              => (resp'.status = 404 /\ UNCHANGED <<reactions, saves, comments>>) ]_vars

\* a comment on an id with no suggestion was refused while each of the four
\* tables holds a row
C21_Witness ==
    /\ req.op = "comment" /\ req.suggestion_id \notin Ids /\ resp.status = 404
    /\ reactions # {} /\ saves # {} /\ daily # {} /\ comments # <<>>

\* the rows a step adds to a table kept oldest first
Added(before, after) == {i \in 1..Len(after) : i > Len(before)}

\* C22: every suggestion row and every comment row a step adds holds a text
\* of 1 to 500 characters, and when Create, Ingest-daily or Comment added it,
\* the text is what _sanitize_text makes of the text sent.
C22_RowsHoldValidText ==
    [][ /\ \A i \in Added(suggestions, suggestions') :
               /\ Len(suggestions'[i].text) \in 1..MaxTextLen
               /\ req'.op \in {"create", "ingest"}
                     => suggestions'[i].text = _sanitize_text(req'.text)
        /\ \A i \in Added(comments, comments') :
               /\ Len(comments'[i].text) \in 1..MaxTextLen
               /\ comments'[i].text = _sanitize_text(req'.text) ]_vars

\* rows of the greatest length and a trimmed one are stored, and a text one
\* longer has just been refused
C22_Witness ==
    /\ \E i \in Ids : Len(suggestions[i].text) = MaxTextLen
    /\ \E i \in Ids : suggestions[i].text = <<"b">>
    /\ comments # <<>>
    /\ Len(req.text) > MaxTextLen /\ resp.status = 400

\* C23: no step removes a suggestion or changes the text, the author or the
\* source of one: the table only grows.
C23_SuggestionsOnlyGrow ==
    [][ /\ Len(suggestions') >= Len(suggestions)
        /\ \A i \in Ids : /\ suggestions'[i].text = suggestions[i].text
                           /\ suggestions'[i].user_id = suggestions[i].user_id
                           /\ suggestions'[i].source = suggestions[i].source ]_vars

\* a second ingest-daily has answered ok while a suggestion was there
C23_Witness ==
    /\ req.op = "ingest" /\ resp.status = 200 /\ Len(suggestions) = MaxSuggestions
    /\ reactions # {} /\ saves # {} /\ comments # <<>>

\* the rows of a table that belong to a user
RowsOfUser(tbl, uid) == {r \in tbl : r.user_id = uid}

\* C28: a React or Save request leaves the reactions and the saves of every
\* user other than the caller as they were, and with them the is_saved value
\* each of those users is shown for every suggestion.
C28_OtherUsersUntouched ==
    [][ req'.op \in {"react", "save"} =>
          \A v \in Users \ {req'.user} :
              /\ RowsOfUser(reactions', v) = RowsOfUser(reactions, v)
              /\ RowsOfUser(saves', v) = RowsOfUser(saves, v)
              /\ \A sid \in Ids : _is_saved(sid, v)' = _is_saved(sid, v) ]_vars

\* a user has just unsaved a suggestion that another user has saved and
\* reacted to
C28_Witness ==
    /\ req.op = "save" /\ resp.status = 200 /\ ~resp.saved
    /\ \E r \in saves : r.user_id # req.user /\ r.suggestion_id = req.suggestion_id
    /\ \E r \in reactions : r.user_id # req.user /\ r.suggestion_id = req.suggestion_id

\* C24: in every reachable state the badge_level of each gamification row is
\* calculate_badge of its points, whichever request changed the points last.
C24_BadgeMatchesPoints ==
    \A uid \in DOMAIN gamification :
        gamification[uid].badge_level = calculate_badge(gamification[uid].points)

\* the balance of a user: the points of their row, 0 without one
PointsOf(g, uid) == IF uid \in DOMAIN g THEN g[uid].points ELSE 0

\* the characters a user owns
OwnedBy(tbl, uid) == {r.character_id : r \in {x \in tbl : x.user_id = uid}}

ClaimsOf(tbl, uid, reward_id) ==
    {i \in 1..Len(tbl) : tbl[i] = [user_id |-> uid, reward_id |-> reward_id]}

ActiveOf(tbl, uid) == {r \in tbl : r.user_id = uid /\ r.is_active}

\* C27: after every step each user has at most one row marked active, rows
\* being characters they own, and the response names an active character
\* among the owned ones; set-active on an owned character makes it the
\* active one, and on a character the user does not own answers 400 and
\* changes nothing.
C27_OneActiveOwned ==
    [][ /\ \A uid \in Users : Cardinality(ActiveOf(user_characters', uid)) <= 1
        /\ req'.op \in {"buy", "active"} /\ resp'.active # None
               => resp'.active \in resp'.owned
        /\ req'.op = "active" =>
               IF \E r \in user_characters :
                      r.user_id = req'.user /\ r.character_id = req'.character_id
               THEN resp'.status = 200 /\ resp'.active = req'.character_id
               ELSE resp'.status = 400 /\ UNCHANGED <<user_characters, gamification>>
      ]_vars

\* a user who owns both characters has just moved the mark from one to the
\* other, while the other user has an active character too
C27_Witness ==
    /\ req.op = "active" /\ resp.status = 200 /\ Cardinality(resp.owned) = 2
    /\ ActiveOf(user_characters, 3 - req.user) # {}

\* C29: onboarding_completed never goes back to false, and a personality
\* submit by a user for whom it is true answers 409 and leaves
\* personality_responses and user_profiles as they were.
C29_OnboardingOnce ==
    [][ /\ \A u \in Users : users[u].onboarding_completed => users'[u].onboarding_completed
        /\ (req'.op = "submit" /\ req'.user # None /\ users[req'.user].onboarding_completed)
               => /\ resp'.status = 409
                  /\ UNCHANGED <<personality_responses, user_profiles>> ]_vars

\* a submit after the onboarding was completed has been refused
C29_Witness ==
    /\ req.op = "submit" /\ resp.status = 409
    /\ users[req.user].onboarding_completed

\* C30: reset-password succeeds only with a token of type password_reset,
\* and a guarded route answers only a token that login signed: never one of
\* type password_reset.
C30_TokenKindsApart ==
    /\ (req.op = "reset" /\ resp.status = 200) => req.token.type = "password_reset"
    /\ (req.op \in {"me", "complete", "submit"} /\ resp.user # None)
          => req.token.type # "password_reset"

==========================================================================
